---- MODULE Spec2Model ----
(***************************************************************************)
(* The credential-lease broker of min_creds: per service a pool of         *)
(* credentials, a lease table and a queue of waiters, all mutated under    *)
(* the broker's write lock; HTTP handlers for /get and /release; the       *)
(* Cleaner that sweeps every service every 3 seconds.                      *)
(*                                                                         *)
(* One step of the model is one critical section (one acquisition of a     *)
(* broker's lock), or one event outside any lock (time passing, a client   *)
(* dropping its receiver).                                                 *)
(***************************************************************************)
EXTENDS Integers, Sequences, FiniteSets, TLC

\* ------------------------------------------------------------------ bounds

MaxTime == 6        \* the clock stops here
MaxLeaseIds == 3    \* lease ids generated over the run
MaxRequests == 4    \* POST /get requests over the run (one channel each)
MaxRestarts == 1    \* times the process is stopped and started again; the run ends
                    \* with the last startup

\* --------------------------------------------------------------- constants

SweepInterval == 3  \* seconds between two runs of Cleaner::clean
ChannelCapacity == 1

\* ----------------------------------------------------------- configuration

\* the User-Agent headers of the clients
ClientNames == {"A", "B"}

\* config::Credential
Credential(user, password, num_concurrent) ==
    [user |-> user, password |-> password, num_concurrent |-> num_concurrent]

\* The configurations the broker is started with: config::Config.services,
\* a map from service name to config::Service.
\*  - one service, one account safe for two concurrent uses;
\*  - two services, one with two accounts and one with a single account.
Configs ==
    { [s \in {"s1"} |->
          [lease_timeout_secs |-> 2,
           credentials |-> << Credential("a", "pa", 2) >>]],
      [s \in {"s1", "s2"} |->
          IF s = "s1"
          THEN [lease_timeout_secs |-> 1,
                credentials |-> << Credential("a", "pa", 1), Credential("b", "pb", 1) >>]
          ELSE [lease_timeout_secs |-> 1,
                credentials |-> << Credential("c", "pc", 1) >>]] }

\* ------------------------------------------------------------------- state

VARIABLES
    config,      \* the configuration read at startup
    iterOrder,   \* the order in which the services HashMap yields its entries
    services,    \* ServiceName -> ServiceBroker [service: Service, waiters]
    chan,        \* the mpsc channels whose Sender a waiter holds
    nextChan,    \* the number of the next channel mpsc::channel() creates
    nextId,      \* the next lease id LeaseId::new() generates
    handed,      \* history: the ids of the leases a try_send has put into a channel
    now,         \* Utc::now(), in seconds
    sweepPos,    \* Cleaner::clean: the place in iterOrder it locks next; 0: not running
    releasing,   \* clear_lease handlers between two turns of their loop
    leasesFile,  \* the file persistent_leases_filename names
    running,     \* the process runs (between startup and the end of HttpServer::run)
    restarts,    \* history: the times the process was stopped
    tasks,       \* lock by lock: where each task is in its loop over the brokers
                 \* and the RwLock guards it holds
    polling      \* the earlier iteration (src/main.rs): its services behind one
                 \* Mutex, and the get_lease handlers in their polling loop

vars == <<config, iterOrder, services, chan, nextChan, nextId, handed, now, sweepPos, releasing,
          leasesFile, running, restarts, tasks, polling>>

\* what the request handlers and the Cleaner never touch (a step of theirs
\* is a whole critical section)
process == <<leasesFile, running, restarts, tasks, polling>>

\* the state of the brokers and of the process
brokers == <<config, iterOrder, services, chan, nextChan, nextId, handed, now, sweepPos, releasing,
             leasesFile, running, restarts, polling>>

ServiceNames == DOMAIN services

\* The clients that send requests: two where there is one service, one where
\* there are several.
UserAgents == IF Cardinality(DOMAIN config) = 1 THEN ClientNames ELSE {"A"}

\* ----------------------------------------------------------------- helpers

None == <<>>
Some(v) == <<v>>

\* all orders in which the elements of S can be visited
Orderings(S) ==
    {f \in [1..Cardinality(S) -> S] :
        \A i, j \in 1..Cardinality(S) : i # j => f[i] # f[j]}

\* HashMap::insert
MapInsert(map, k, v) == [x \in DOMAIN map \cup {k} |-> IF x = k THEN v ELSE map[x]]

\* HashMap::remove (the map that is left)
MapRemove(map, k) == [x \in DOMAIN map \ {k} |-> map[x]]

RECURSIVE Repeat(_, _)
Repeat(v, n) == IF n = 0 THEN <<>> ELSE <<v>> \o Repeat(v, n - 1)

RECURSIVE FlatMap(_)
\* credentials.iter().flat_map(|c| (0..c.num_concurrent).map(|_| Cred {..}))
FlatMap(credentials) ==
    IF credentials = <<>> THEN <<>>
    ELSE Repeat([user |-> Head(credentials).user, password |-> Head(credentials).password],
                Head(credentials).num_concurrent)
         \o FlatMap(Tail(credentials))

\* ---------------------------------------------------------------- service.rs

\* a variant of CredFromLease that fills the password from the wrong field
CredFromLeaseWrongField(lease) == [user |-> lease.user, password |-> lease.user]

\* impl From<Lease> for Cred
CredFromLease(lease) == [user |-> lease.user, password |-> lease.password]

\* a variant of is_expired that counts the second of expiry as expired
IsExpiredInclusive(expiration, t) == expiration.expires_on <= t

\* Expiration::is_expired
IsExpired(expiration, t) == expiration.expires_on < t

\* a variant of Lease::from_cred that does not add the duration
LeaseFromCredNoDuration(cred, expiration_duration, client_name, id, t) ==
    [id |-> id,
     user |-> cred.user,
     password |-> cred.password,
     client_name |-> client_name,
     expiration |-> [expires_on |-> t, created_on |-> t]]

\* Lease::from_cred, with the id LeaseId::new() returns and the clock reading t
LeaseFromCred(cred, expiration_duration, client_name, id, t) ==
    [id |-> id,
     user |-> cred.user,
     password |-> cred.password,
     client_name |-> client_name,
     expiration |-> [expires_on |-> t + expiration_duration, created_on |-> t]]

\* A critical section works on m = [service, waiters, chan, nextChan, nextId,
\* handed]: the broker it has locked, the channels, the sources of channels and
\* of lease ids, and the history of what was handed over.

\* Service::clear_expired_leases: one outcome per order in which the HashMap
\* yields the expired keys
ClearExpiredLeases(m, t) ==
    LET leases == m.service.leases
        expired == {id \in DOMAIN leases : IsExpired(leases[id].expiration, t)}
    IN  { [m |-> [m EXCEPT
                    !.service.leases = [id \in DOMAIN leases \ expired |-> leases[id]],
                    !.service.available_creds =
                        @ \o [i \in 1..Cardinality(expired) |-> CredFromLease(leases[ord[i]])]],
           n_expired |-> Cardinality(expired)]
          : ord \in Orderings(expired) }

\* a variant of Service::get_lease that does not reap the expired leases
GetLeaseNoReap(m, client_name, t) ==
    { IF m.service.available_creds # <<>>
      THEN LET lease == LeaseFromCred(Head(m.service.available_creds),
                                      m.service.expires_in, client_name, m.nextId, t)
           IN  [m |-> [m EXCEPT !.service.available_creds = Tail(@),
                                !.service.leases = MapInsert(@, lease.id, lease),
                                !.nextId = @ + 1],
                lease |-> Some(lease)]
      ELSE [m |-> m, lease |-> None] }

\* Service::get_lease
GetLease(m, client_name, t) ==
    { LET c == r.m IN
        IF c.service.available_creds # <<>>
        THEN LET lease == LeaseFromCred(Head(c.service.available_creds),
                                        c.service.expires_in, client_name, c.nextId, t)
             IN  [m |-> [c EXCEPT !.service.available_creds = Tail(@),
                                  !.service.leases = MapInsert(@, lease.id, lease),
                                  !.nextId = @ + 1],
                  lease |-> Some(lease)]
        ELSE [m |-> c, lease |-> None]
      : r \in ClearExpiredLeases(m, t) }

\* a variant of Service::release that forgets to give the credential back
ServiceReleaseKeepsCred(m, lease_id, t) ==
    IF lease_id \in DOMAIN m.service.leases
    THEN LET lease == m.service.leases[lease_id] IN
         [m |-> [m EXCEPT !.service.leases = MapRemove(@, lease_id)],
          lr |-> Some([duration |-> t - lease.expiration.created_on,
                       client_name |-> lease.client_name])]
    ELSE [m |-> m, lr |-> None]

\* a variant of Service::release that puts the credential at the front
ServiceReleaseToFront(m, lease_id, t) ==
    IF lease_id \in DOMAIN m.service.leases
    THEN LET lease == m.service.leases[lease_id] IN
         [m |-> [m EXCEPT !.service.leases = MapRemove(@, lease_id),
                          !.service.available_creds = <<CredFromLease(lease)>> \o @],
          lr |-> Some([duration |-> t - lease.expiration.created_on,
                       client_name |-> lease.client_name])]
    ELSE [m |-> m, lr |-> None]

\* a variant of Service::release that takes an id it does not know for the
\* id of the lease made last
ServiceReleaseLatestOnMiss(m, lease_id, t) ==
    LET ids == DOMAIN m.service.leases
        found == IF lease_id \in ids \/ ids = {} THEN lease_id
                 ELSE CHOOSE k \in ids : \A j \in ids : j <= k
    IN  IF found \in ids
        THEN LET lease == m.service.leases[found] IN
             [m |-> [m EXCEPT !.service.leases = MapRemove(@, found),
                              !.service.available_creds = Append(@, CredFromLease(lease))],
              lr |-> Some([duration |-> t - lease.expiration.created_on,
                           client_name |-> lease.client_name])]
        ELSE [m |-> m, lr |-> None]

\* Service::release
ServiceRelease(m, lease_id, t) ==
    IF lease_id \in DOMAIN m.service.leases
    THEN LET lease == m.service.leases[lease_id] IN
         [m |-> [m EXCEPT !.service.leases = MapRemove(@, lease_id),
                          !.service.available_creds = Append(@, CredFromLease(lease))],
          lr |-> Some([duration |-> t - lease.expiration.created_on,
                       client_name |-> lease.client_name])]
    ELSE [m |-> m, lr |-> None]

\* ------------------------------------------------------------------ main.rs

\* a variant of try_send that does not notice that the receiver is gone
TrySendIgnoresClosed(m, sender, lease) ==
    IF Len(m.chan[sender].buf) >= ChannelCapacity
    THEN [m |-> m, ok |-> FALSE]
    ELSE [m |-> [m EXCEPT !.chan[sender].buf = Append(@, lease),
                          !.handed = @ \cup {lease.id}],
          ok |-> TRUE]

\* mpsc::Sender::try_send: fails when the receiver is gone or the buffer is full
TrySend(m, sender, lease) ==
    IF m.chan[sender].closed \/ Len(m.chan[sender].buf) >= ChannelCapacity
    THEN [m |-> m, ok |-> FALSE]
    ELSE [m |-> [m EXCEPT !.chan[sender].buf = Append(@, lease),
                          !.handed = @ \cup {lease.id}],
          ok |-> TRUE]

\* ServiceBroker::obtain_lease
ObtainLease(m, client_name, t) ==
    LET sender == m.nextChan
        m1 == [m EXCEPT !.chan = MapInsert(@, sender, [closed |-> FALSE, buf |-> <<>>]),
                        !.nextChan = @ + 1]
    IN  { IF r.lease # None
          THEN LET lease == r.lease[1]
                   sent == TrySend(r.m, sender, lease)
               IN  [m |-> IF sent.ok THEN sent.m ELSE ServiceRelease(r.m, lease.id, t).m,
                    receiver |-> sender]
          ELSE [m |-> [r.m EXCEPT !.waiters =
                          Append(@, [sender |-> sender, client_name |-> client_name])],
                receiver |-> sender]
        : r \in GetLease(m1, client_name, t) }

RECURSIVE ServeWaitersNoRollback(_, _)
\* a variant of serve_waiters that leaves the lease in the table when the
\* waiter is gone
ServeWaitersNoRollback(m, t) ==
    IF m.waiters = <<>> THEN {m}
    ELSE UNION {
        IF r.lease # None
        THEN LET popped == [r.m EXCEPT !.waiters = Tail(@)]
             IN  ServeWaitersNoRollback(TrySend(popped, Head(r.m.waiters).sender, r.lease[1]).m, t)
        ELSE {r.m}
        : r \in GetLease(m, Head(m.waiters).client_name, t) }

RECURSIVE ServeWaitersPopsBack(_, _)
\* a variant of serve_waiters that takes the waiter at the back of the queue
ServeWaitersPopsBack(m, t) ==
    IF m.waiters = <<>> THEN {m}
    ELSE UNION {
        IF r.lease # None
        THEN LET lease == r.lease[1]
                 waiter == r.m.waiters[Len(r.m.waiters)]
                 popped == [r.m EXCEPT !.waiters = SubSeq(@, 1, Len(@) - 1)]
                 sent == TrySend(popped, waiter.sender, lease)
             IN  ServeWaitersPopsBack(IF sent.ok THEN sent.m
                                      ELSE ServiceRelease(popped, lease.id, t).m, t)
        ELSE {r.m}
        : r \in GetLease(m, Head(m.waiters).client_name, t) }

\* a variant of serve_waiters with an `if` in the place of the `while`: it
\* offers one credential to one waiter
ServeWaitersOnce(m, t) ==
    IF m.waiters = <<>> THEN {m}
    ELSE { IF r.lease # None
           THEN LET lease == r.lease[1]
                    waiter == Head(r.m.waiters)
                    popped == [r.m EXCEPT !.waiters = Tail(@)]
                    sent == TrySend(popped, waiter.sender, lease)
                IN  IF sent.ok THEN sent.m ELSE ServiceRelease(popped, lease.id, t).m
           ELSE r.m
           : r \in GetLease(m, Head(m.waiters).client_name, t) }

RECURSIVE ServeWaiters(_, _)
\* ServiceBroker::serve_waiters
ServeWaiters(m, t) ==
    IF m.waiters = <<>> THEN {m}
    ELSE UNION {
        IF r.lease # None
        THEN LET lease == r.lease[1] IN
             IF r.m.waiters # <<>>
             THEN LET waiter == Head(r.m.waiters)
                      popped == [r.m EXCEPT !.waiters = Tail(@)]
                      sent == TrySend(popped, waiter.sender, lease)
                  IN  ServeWaiters(IF sent.ok THEN sent.m
                                   ELSE ServiceRelease(popped, lease.id, t).m, t)
             ELSE ServeWaiters(ServiceRelease(r.m, lease.id, t).m, t)
        ELSE {r.m}
        : r \in GetLease(m, Head(m.waiters).client_name, t) }

\* a variant of ServiceBroker::clean that serves the waiters without reaping
BrokerCleanOnlyServes(m, t) ==
    { [m |-> m2, n_cleared |-> 0] : m2 \in ServeWaiters(m, t) }

\* ServiceBroker::clean
BrokerClean(m, t) ==
    UNION { { [m |-> m2, n_cleared |-> r.n_expired] : m2 \in ServeWaiters(r.m, t) }
            : r \in ClearExpiredLeases(m, t) }

\* a variant of ServiceBroker::release that does not serve the waiters
BrokerReleaseNoServe(m, lease_id, t) ==
    LET r == ServiceRelease(m, lease_id, t)
    IN  { [m |-> r.m, lr |-> r.lr] }

\* a variant of ServiceBroker::release that sweeps like clean does
BrokerReleaseSweeps(m, lease_id, t) ==
    LET r == ServiceRelease(m, lease_id, t)
    IN  { [m |-> c.m, lr |-> r.lr] : c \in BrokerClean(r.m, t) }

\* ServiceBroker::release
BrokerRelease(m, lease_id, t) ==
    LET r == ServiceRelease(m, lease_id, t)
    IN  { [m |-> m2, lr |-> r.lr] : m2 \in ServeWaiters(r.m, t) }

\* the broker of s as a critical section sees it, and the state it leaves
Locked(s) == [service |-> services[s].service, waiters |-> services[s].waiters,
              chan |-> chan, nextChan |-> nextChan, nextId |-> nextId, handed |-> handed]

\* the senders the waiters of the brokers svcs hold
Senders(svcs) ==
    UNION { {svcs[s].waiters[i].sender : i \in 1..Len(svcs[s].waiters)} : s \in DOMAIN svcs }

\* The lock is dropped. A channel whose Sender was dropped (at the end of
\* obtain_lease, or with the waiter popped by serve_waiters) is out of the
\* broker's hands: what was sent is on its way to the client.
Unlock(s, m) ==
    /\ m.nextId <= MaxLeaseIds + 1
    /\ services' = [services EXCEPT ![s] = [service |-> m.service, waiters |-> m.waiters]]
    /\ chan' = [c \in Senders(services') |-> m.chan[c]]
    /\ nextChan' = m.nextChan
    /\ nextId' = m.nextId
    /\ handed' = m.handed


\* -------------------------------------------------------- main.rs: persistence

\* Cred::cred_hash: the SHA-1 of "user|password" (the digest is taken as
\* one-to-one on the strings it is given)
CredHash(cred) == cred.user \o "|" \o cred.password

\* what File::open and serde_yaml::from_slice can find at leases_path: no
\* file, bytes that do not parse, or the YAML of a map from service name to
\* a list of PersistentLease
Missing == [kind |-> "missing"]
Malformed == [kind |-> "malformed"]
Yaml(leases) == [kind |-> "yaml", leases |-> leases]

\* PersistentLease as persist_leases builds it from a lease
PersistentLease(lease) ==
    [lease_id |-> lease.id,
     expiration |-> lease.expiration,
     client_name |-> lease.client_name,
     cred_hash |-> CredHash(CredFromLease(lease))]

\* the Vecs persist_leases can build for one broker: one per order in which
\* broker.service.leases.iter() yields the leases
PersistentLeasesOf(broker) ==
    LET leases == broker.service.leases IN
    { [i \in 1..Cardinality(DOMAIN leases) |-> PersistentLease(leases[ord[i]])]
      : ord \in Orderings(DOMAIN leases) }

\* the functions that pick one element of sets[k] for every k
Choices(sets) ==
    {f \in [DOMAIN sets -> UNION {sets[k] : k \in DOMAIN sets}] :
        \A k \in DOMAIN sets : f[k] \in sets[k]}

\* AppState::persist_leases: the files it can write; a service without
\* leases is left out
PersistLeases(svcs) ==
    LET withLeases == {s \in DOMAIN svcs : DOMAIN svcs[s].service.leases # {}}
    IN  { Yaml(f) : f \in Choices([s \in withLeases |-> PersistentLeasesOf(svcs[s])]) }

\* available_creds.drain(..).map(|cred| (cred.cred_hash(), cred)).collect::<HashMap>():
\* of the credentials with one hash, the last one stays
CredHashes(available_creds) ==
    [h \in {CredHash(available_creds[i]) : i \in 1..Len(available_creds)} |->
        LET last == CHOOSE i \in 1..Len(available_creds) :
                        /\ CredHash(available_creds[i]) = h
                        /\ \A j \in (i + 1)..Len(available_creds) :
                              CredHash(available_creds[j]) # h
        IN  available_creds[last]]

RECURSIVE RestoreLeases(_, _, _, _)
\* load_persistent_leases: the loop over the persisted leases of one service
RestoreLeases(persistent_leases, cred_hashes, leases, t) ==
    IF persistent_leases = <<>> THEN [cred_hashes |-> cred_hashes, leases |-> leases]
    ELSE LET persistent_lease == Head(persistent_leases) IN
         IF IsExpired(persistent_lease.expiration, t)
         THEN RestoreLeases(Tail(persistent_leases), cred_hashes, leases, t)
         ELSE IF persistent_lease.cred_hash \in DOMAIN cred_hashes
         THEN LET cred == cred_hashes[persistent_lease.cred_hash] IN
              RestoreLeases(Tail(persistent_leases),
                            MapRemove(cred_hashes, persistent_lease.cred_hash),
                            MapInsert(leases, persistent_lease.lease_id,
                                      [id |-> persistent_lease.lease_id,
                                       user |-> cred.user,
                                       password |-> cred.password,
                                       client_name |-> persistent_lease.client_name,
                                       expiration |-> persistent_lease.expiration]),
                            t)
         ELSE RestoreLeases(Tail(persistent_leases), cred_hashes, leases, t)

\* load_persistent_leases: what it does to one broker the file names; one
\* outcome per order in which cred_hashes.drain() yields what is left
LoadBroker(broker, persistent_leases, t) ==
    LET r == RestoreLeases(persistent_leases, CredHashes(broker.service.available_creds),
                           broker.service.leases, t)
    IN  { [broker EXCEPT
              !.service.leases = r.leases,
              !.service.available_creds =
                  [i \in 1..Cardinality(DOMAIN r.cred_hashes) |-> r.cred_hashes[ord[i]]]]
          : ord \in Orderings(DOMAIN r.cred_hashes) }

\* a variant of load_persistent_leases that drains the pools before it reads
\* the file
LoadPersistentLeasesDrainsFirst(svcs, file, t) ==
    IF file.kind # "yaml"
    THEN { [services |-> [s \in DOMAIN svcs |->
                             [svcs[s] EXCEPT !.service.available_creds = <<>>]],
            ok |-> FALSE] }
    ELSE { [services |-> f, ok |-> TRUE]
           : f \in Choices([s \in DOMAIN svcs |->
                              IF s \in DOMAIN file.leases
                              THEN LoadBroker(svcs[s], file.leases[s], t)
                              ELSE {svcs[s]}]) }

\* AppState::load_persistent_leases: Err before any broker is touched when
\* the file cannot be opened or parsed
LoadPersistentLeases(svcs, file, t) ==
    IF file.kind # "yaml" THEN { [services |-> svcs, ok |-> FALSE] }
    ELSE { [services |-> f, ok |-> TRUE]
           : f \in Choices([s \in DOMAIN svcs |->
                              IF s \in DOMAIN file.leases
                              THEN LoadBroker(svcs[s], file.leases[s], t)
                              ELSE {svcs[s]}]) }

\* ------------------------------------------------------- main.rs: the locks

\* the async functions that lock brokers, and the lock each takes
TaskNames ==
    {"get_lease", "clear_lease", "clean", "overview", "persist_leases",
     "load_persistent_leases"}

LockMode(t) == IF t \in {"overview", "persist_leases"} THEN "read" ELSE "write"

\* A task is idle, or awaits the lock of the broker path[pos], or is in the
\* body of its loop with the guard of that lock.
Idle == [pc |-> "idle", path |-> <<>>, pos |-> 0, guards |-> {}]

\* the brokers a task locks, in order: get_lease the one of its service; the
\* loops over services.iter() all of them in the order of that HashMap;
\* load_persistent_leases the configured services its file names, in the
\* order of the file's HashMap
Paths(t) ==
    IF t = "get_lease" THEN { <<s>> : s \in DOMAIN config }
    ELSE IF t = "load_persistent_leases"
    THEN UNION { Orderings(S) : S \in SUBSET (DOMAIN config) \ {{}} }
    ELSE { iterOrder }

\* an RwLock is granted when no other task holds a guard in the way: a read
\* guard beside read guards, a write guard alone
Granted(t, s) ==
    \A u \in TaskNames \ {t} : \A g \in tasks[u].guards :
        g.service = s => (g.mode = "read" /\ LockMode(t) = "read")

\* a variant in which the guards are kept until the function returns
DropGuardAtReturn(guards, s) == guards

\* the guard `broker` is a local of the loop body (of the if-let body in
\* get_lease and load_persistent_leases): it is dropped where the body ends
DropGuard(guards, s) == {g \in guards : g.service # s}

\* ------------------------------------- the earlier iteration: src/main.rs

\* Lease::from_cred, with the id Uuid::new_v4() returns and the clock reading t
PollingLeaseFromCred(cred, expiration_duration, id, t) ==
    [id |-> id,
     user |-> cred.user,
     password |-> cred.password,
     expires_on |-> t + expiration_duration]

\* Service::clear_expired_leases: one outcome per order in which the HashMap
\* yields the expired keys
PollingClearExpiredLeases(service, t) ==
    LET leases == service.leases
        expired == {id \in DOMAIN leases : leases[id].expires_on < t}
    IN  { [service EXCEPT
              !.leases = [id \in DOMAIN leases \ expired |-> leases[id]],
              !.available_creds =
                  @ \o [i \in 1..Cardinality(expired) |->
                           [user |-> leases[ord[i]].user, password |-> leases[ord[i]].password]]]
          : ord \in Orderings(expired) }

\* Service::get_lease
PollingGetLease(service, id, t) ==
    { IF c.available_creds # <<>>
      THEN LET lease == PollingLeaseFromCred(Head(c.available_creds), c.expires_in, id, t)
           IN  [service |-> [c EXCEPT !.available_creds = Tail(@),
                                      !.leases = MapInsert(@, lease.id, lease)],
                lease |-> Some(lease)]
      ELSE [service |-> c, lease |-> None]
      : c \in PollingClearExpiredLeases(service, t) }

\* AppState::from_cfg
PollingFromCfg(cfg) ==
    [s \in DOMAIN cfg |->
        [expires_in |-> cfg[s].lease_timeout_secs,
         leases |-> <<>>,
         available_creds |-> FlatMap(cfg[s].credentials)]]

\* overview: the ServiceOverview of a service
PollingServiceOverview(service) ==
    [leases_available |-> Len(service.available_creds),
     leases_in_use |-> Cardinality(DOMAIN service.leases)]

\* -------------------------------------------------------------------- Init

\* AppState::from_cfg, and From<Service> for ServiceBroker
FromCfg(cfg) ==
    [s \in DOMAIN cfg |->
        [service |-> [expires_in |-> cfg[s].lease_timeout_secs,
                      leases |-> <<>>,
                      available_creds |-> FlatMap(cfg[s].credentials)],
         waiters |-> <<>>]]

Init ==
    /\ config \in Configs
    /\ iterOrder \in Orderings(DOMAIN config)
    /\ services = FromCfg(config)
    /\ chan = <<>>
    /\ nextChan = 1
    /\ nextId = 1
    /\ handed = {}
    /\ now = 0
    /\ sweepPos = 0
    /\ releasing = {}
    /\ leasesFile = Missing
    /\ running = TRUE
    /\ restarts = 0
    /\ tasks = [t \in TaskNames |-> Idle]
    /\ polling = [services |-> PollingFromCfg(config),
                  delayed |-> [s \in DOMAIN config |-> 0],
                  requests |-> 0]

\* ----------------------------------------------------------------- actions

\* get_lease: POST /get for a configured service, User-Agent ua
GetLeaseHandler(s, ua) ==
    /\ nextChan <= MaxRequests
    /\ \E r \in ObtainLease(Locked(s), ua, now) : Unlock(s, r.m)
    /\ UNCHANGED <<config, iterOrder, now, sweepPos, releasing, process>>

\* a variant of the loop of clear_lease without the break: it goes on to
\* the next service after the one that knows the lease
ClearLeaseTurnNoBreak(rq) ==
    LET s == iterOrder[rq.pos] IN
    /\ \E r \in BrokerRelease(Locked(s), rq.lease, now) :
        /\ Unlock(s, r.m)
        /\ releasing' =
              (releasing \ {rq}) \cup
              (IF rq.pos = Len(iterOrder) THEN {}
               ELSE {[rq EXCEPT !.pos = @ + 1]})
    /\ UNCHANGED <<config, iterOrder, now, sweepPos, process>>

\* clear_lease: one turn of the loop of the handler rq = [lease, pos], which
\* locks the service the iterator yields next. The loop ends at the first
\* service that knows the lease.
ClearLeaseTurn(rq) ==
    LET s == iterOrder[rq.pos] IN
    /\ \E r \in BrokerRelease(Locked(s), rq.lease, now) :
        /\ Unlock(s, r.m)
        /\ releasing' =
              (releasing \ {rq}) \cup
              (IF r.lr # None \/ rq.pos = Len(iterOrder) THEN {}
               ELSE {[rq EXCEPT !.pos = @ + 1]})
    /\ UNCHANGED <<config, iterOrder, now, sweepPos, process>>

\* clear_lease: POST /release arrives with a lease id and the handler locks
\* the first service. (One handler at a time is between two turns of its
\* loop; the other handlers, and the Cleaner, interleave with it freely.)
ClearLeaseHandler(lease_id) ==
    /\ releasing = {}
    /\ ClearLeaseTurn([lease |-> lease_id, pos |-> 1])

\* clear_lease: a handler that found nothing yet locks the next service
ClearLeaseNext(rq) ==
    /\ rq \in releasing
    /\ ClearLeaseTurn(rq)

\* Cleaner::clean: one turn of the loop, locking the next service
CleanerStep ==
    /\ sweepPos > 0
    /\ \E r \in BrokerClean(Locked(iterOrder[sweepPos]), now) :
          Unlock(iterOrder[sweepPos], r.m)
    /\ sweepPos' = IF sweepPos = Len(iterOrder) THEN 0 ELSE sweepPos + 1
    /\ UNCHANGED <<config, iterOrder, now, releasing, process>>

\* a variant in which a client that gives up is taken out of the queue at once
AbandonLeavesQueue(c) ==
    /\ c \in DOMAIN chan
    /\ ~chan[c].closed
    /\ services' = [s \in DOMAIN services |->
                       [services[s] EXCEPT !.waiters = SelectSeq(@, LAMBDA w : w.sender # c)]]
    /\ chan' = [x \in DOMAIN chan \ {c} |-> chan[x]]
    /\ UNCHANGED <<config, iterOrder, nextChan, nextId, handed, now, sweepPos, releasing,
                   process>>

\* a parked client gives up: its LeaseReceiver is dropped
Abandon(c) ==
    /\ c \in DOMAIN chan
    /\ ~chan[c].closed
    /\ chan' = [chan EXCEPT ![c].closed = TRUE]
    /\ UNCHANGED <<config, iterOrder, services, nextChan, nextId, handed, now, sweepPos, releasing,
                   process>>

\* A second passes; every SweepInterval seconds the Cleaner's interval fires
\* and Cleaner::clean is spawned. A sweep ends before the next second does.
Tick ==
    /\ now < MaxTime
    /\ sweepPos = 0
    /\ now' = now + 1
    /\ sweepPos' = IF (now + 1) % SweepInterval = 0 THEN 1 ELSE 0
    /\ UNCHANGED <<config, iterOrder, services, chan, nextChan, nextId, handed, releasing, process>>

Next ==
    \/ \E s \in ServiceNames, ua \in UserAgents : GetLeaseHandler(s, ua)
    \/ \E id \in 0..(nextId - 1) : ClearLeaseHandler(id)
    \/ \E rq \in releasing : ClearLeaseNext(rq)
    \/ CleanerStep
    \/ \E c \in 1..MaxRequests : Abandon(c)
    \/ Tick

Spec == Init /\ [][Next]_vars

\* ---------------------------------------------------------- stop and restart

\* main, after HttpServer::run has returned: persist_leases, then exit. No
\* handler is left and the Cleaner is between two sweeps. File::create can
\* fail and leave the file as it was; the write can fail and leave a file
\* that does not parse. What was in memory is gone.
Shutdown ==
    /\ running
    /\ restarts < MaxRestarts
    /\ restarts' = restarts + 1
    /\ sweepPos = 0
    /\ releasing = {}
    /\ leasesFile' \in PersistLeases(services) \cup {leasesFile, Malformed}
    /\ running' = FALSE
    /\ services' = <<>>
    /\ chan' = <<>>
    /\ UNCHANGED <<config, iterOrder, nextChan, nextId, handed, now, sweepPos, releasing, tasks,
                   polling>>

\* a second passes while the process is down
Downtime ==
    /\ ~running
    /\ now < MaxTime
    /\ now' = now + 1
    /\ UNCHANGED <<config, iterOrder, services, chan, nextChan, nextId, handed, sweepPos,
                   releasing, process>>

\* main, up to Cleaner::start: the configuration cfg is read (it may have
\* been edited), from_cfg builds the brokers and load_persistent_leases
\* runs; when it fails main warns and goes on. (The sweeps of the new
\* process are kept on the seconds that are multiples of SweepInterval.)
Startup(cfg) ==
    /\ ~running
    /\ config' = cfg
    /\ iterOrder' \in Orderings(DOMAIN cfg)
    /\ \E r \in LoadPersistentLeases(FromCfg(cfg), leasesFile, now) : services' = r.services
    /\ running' = TRUE
    /\ UNCHANGED <<chan, nextChan, nextId, handed, now, sweepPos, releasing, leasesFile, restarts,
                   tasks, polling>>

\* the process runs, and it will be stopped again
Serving == running /\ restarts < MaxRestarts

RestartNext ==
    \/ \E s \in ServiceNames, ua \in UserAgents : Serving /\ GetLeaseHandler(s, ua)
    \/ \E id \in 0..(nextId - 1) : Serving /\ ClearLeaseHandler(id)
    \/ \E rq \in releasing : Serving /\ ClearLeaseNext(rq)
    \/ Serving /\ CleanerStep
    \/ \E c \in 1..MaxRequests : Serving /\ Abandon(c)
    \/ Serving /\ Tick
    \/ Shutdown
    \/ Downtime
    \/ \E cfg \in Configs : Startup(cfg)

SpecRestart == Init /\ [][RestartNext]_vars

\* -------------------------------------------------------------- lock by lock

\* the function t is called
Begin(t) ==
    /\ tasks[t].pc = "idle"
    /\ \E path \in Paths(t) :
          tasks' = [tasks EXCEPT ![t] = [pc |-> "await", path |-> path, pos |-> 1,
                                         guards |-> {}]]
    /\ UNCHANGED brokers

\* broker_rw.write().await or broker_rw.read().await returns the guard
Acquire(t) ==
    LET s == tasks[t].path[tasks[t].pos] IN
    /\ tasks[t].pc = "await"
    /\ Granted(t, s)
    /\ tasks' = [tasks EXCEPT ![t].pc = "body",
                              ![t].guards = @ \cup {[service |-> s, mode |-> LockMode(t)]}]
    /\ UNCHANGED brokers

\* The body ends and its guard is dropped. The function returns after the
\* last broker, and clear_lease also when release returned Some (break);
\* otherwise the loop goes on to the next broker.
EndTurn(t) ==
    LET s == tasks[t].path[tasks[t].pos]
        kept == DropGuard(tasks[t].guards, s)
    IN
    /\ tasks[t].pc = "body"
    /\ \/ /\ tasks[t].pos = Len(tasks[t].path) \/ t = "clear_lease"
          /\ tasks' = [tasks EXCEPT ![t] = Idle]
       \/ /\ tasks[t].pos < Len(tasks[t].path)
          /\ tasks' = [tasks EXCEPT ![t].pc = "await", ![t].pos = @ + 1, ![t].guards = kept]
    /\ UNCHANGED brokers

LockInit == Init

LockNext == \E t \in TaskNames : Begin(t) \/ Acquire(t) \/ EndTurn(t)

SpecLocks == LockInit /\ [][LockNext]_vars

\* ------------------------------------------------------------------ claims

Pool(s) == services[s].service.available_creds
Leases(s) == services[s].service.leases
Waiters(s) == services[s].waiters

RECURSIVE SumConcurrent(_)
\* the sum of num_concurrent over configured credentials
SumConcurrent(credentials) ==
    IF credentials = <<>> THEN 0
    ELSE Head(credentials).num_concurrent + SumConcurrent(Tail(credentials))

RECURSIVE SumConcurrentOf(_, _)
\* the sum of num_concurrent over the configured credentials with the pair x
SumConcurrentOf(credentials, x) ==
    IF credentials = <<>> THEN 0
    ELSE (IF [user |-> Head(credentials).user, password |-> Head(credentials).password] = x
          THEN Head(credentials).num_concurrent ELSE 0)
         + SumConcurrentOf(Tail(credentials), x)

PairOf(l) == [user |-> l.user, password |-> l.password]
InPool(s, x) == Cardinality({i \in 1..Len(Pool(s)) : Pool(s)[i] = x})
InLeases(s, x) == Cardinality({id \in DOMAIN Leases(s) : PairOf(Leases(s)[id]) = x})
PairsOf(s) ==
    {Pool(s)[i] : i \in 1..Len(Pool(s))}
    \cup {PairOf(Leases(s)[id]) : id \in DOMAIN Leases(s)}
    \cup {PairOf(config[s].credentials[i]) : i \in 1..Len(config[s].credentials)}

\* C1: between two operations, for every service, the number of credentials
\* in the pool plus the number of leases in the lease table is the sum of
\* num_concurrent over the service's configured credentials.
CredentialConservation ==
    \A s \in ServiceNames :
        Len(Pool(s)) + Cardinality(DOMAIN Leases(s)) = SumConcurrent(config[s].credentials)

\* C1 happens: leases were issued, one of them went back to the pool, a
\* waiter gave up and the Cleaner has run.
CredentialConservationWitness ==
    \E s \in ServiceNames :
        /\ DOMAIN Leases(s) # {}
        /\ Pool(s) # <<>>
        /\ \E c \in DOMAIN chan : chan[c].closed
        /\ now > SweepInterval
        /\ nextId > 3

\* C2: for every service and every (user, password) pair, the copies in the
\* pool plus the leases that carry the pair are as many as configured; so the
\* leases that carry a pair never exceed its total num_concurrent.
CredentialMultiset ==
    \A s \in ServiceNames : \A x \in PairsOf(s) :
        /\ InPool(s, x) + InLeases(s, x) = SumConcurrentOf(config[s].credentials, x)
        /\ InLeases(s, x) <= SumConcurrentOf(config[s].credentials, x)

\* C2 happens: an account configured for two concurrent uses is leased twice,
\* after leases were given back or expired.
CredentialMultisetWitness ==
    \E s \in ServiceNames : \E x \in PairsOf(s) :
        /\ SumConcurrentOf(config[s].credentials, x) = 2
        /\ InLeases(s, x) = 2
        /\ nextId > 3

\* the step is a turn of clear_lease that calls release(id) on the broker of s
ReleaseTurnOf(id, s) ==
    \E rq \in releasing \cup {[lease |-> id, pos |-> 1]} :
        /\ rq.lease = id
        /\ iterOrder[rq.pos] = s
        /\ rq \in releasing \/ releasing = {}
        /\ ClearLeaseTurn(rq)

\* C3: a lease that was handed to a client leaves the lease table only in a
\* release of its own id, or at a time now with expires_on < now.
OnlyReleaseOrExpiry ==
    [][\A s \in ServiceNames : \A id \in DOMAIN Leases(s) \cap handed :
          id \notin DOMAIN services'[s].service.leases
          => \/ Leases(s)[id].expiration.expires_on < now
             \/ ReleaseTurnOf(id, s)]_vars

\* C3 happens: a handed-over lease is in the table at the second it expires,
\* after the Cleaner ran at that second and after later leases were issued.
OnlyReleaseOrExpiryWitness ==
    \E s \in ServiceNames : \E id \in DOMAIN Leases(s) \cap handed :
        /\ Leases(s)[id].expiration.expires_on = now
        /\ now = SweepInterval
        /\ sweepPos = 0
        /\ nextId > id + 1

\* the waiters of s whose receiver is still there, by place in the queue
LiveWaiters(s) == {i \in 1..Len(Waiters(s)) : ~chan[Waiters(s)[i].sender].closed}

\* the step is a POST /get on s that is answered with a lease at once
ImmediateObtain(s) ==
    /\ \E ua \in UserAgents : GetLeaseHandler(s, ua)
    /\ services'[s].waiters = services[s].waiters

\* C4: FIFO fairness: credentials that come back to a service (by release or
\* by expiry) go to the parked waiters in arrival order, so while a waiter
\* that has not given up is parked, no obtain that arrives later is given a
\* lease ahead of it.
FifoFairness ==
    [][\A s \in ServiceNames : LiveWaiters(s) # {} => ~ImmediateObtain(s)]_vars

\* C5: between two operations, a service with a waiter has an empty pool.
WaitersImplyEmptyPool ==
    \A s \in ServiceNames : Waiters(s) # <<>> => Pool(s) = <<>>

\* the first waiter of s whose receiver is still there
FirstLive(s) == CHOOSE i \in LiveWaiters(s) : \A j \in LiveWaiters(s) : i <= j

\* what the channel of waiter w holds in the critical section's state m
Received(m, w) == m.chan[w.sender].buf

\* C6: when release(id) removes a lease from a service with a waiter that
\* has not given up, then inside that call the first such waiter is sent a
\* lease, and this lease is in the lease table when the call returns; with a
\* single credential it carries the credential that was released.
ReleaseServesFirstWaiter ==
    [] \A s \in ServiceNames : \A id \in DOMAIN Leases(s) :
        LiveWaiters(s) # {} =>
            \A r \in BrokerRelease(Locked(s), id, now) :
                LET got == Received(r.m, Waiters(s)[FirstLive(s)]) IN
                /\ r.lr # None
                /\ got # <<>>
                /\ got[1].id \in DOMAIN r.m.service.leases
                /\ r.m.service.leases[got[1].id] = got[1]
                /\ SumConcurrent(config[s].credentials) = 1
                      => PairOf(got[1]) = PairOf(Leases(s)[id])

\* C6 happens: a single-credential service whose lease is released (the ids
\* for it are left) while a waiter that has not given up is parked.
ReleaseServesFirstWaiterWitness ==
    \E s \in ServiceNames : \E id \in DOMAIN Leases(s) :
        /\ LiveWaiters(s) # {}
        /\ SumConcurrent(config[s].credentials) = 1
        /\ \E r \in BrokerRelease(Locked(s), id, now) :
              /\ r.m.nextId <= MaxLeaseIds + 1
              /\ Received(r.m, Waiters(s)[FirstLive(s)]) # <<>>

\* the critical sections on s that offer a credential to the waiters:
\* the release of a lease of the table, and a sweep that reaps a lease
Offers(s) ==
    UNION { {r.m : r \in BrokerRelease(Locked(s), id, now)} : id \in DOMAIN Leases(s) }
    \cup {r.m : r \in {x \in BrokerClean(Locked(s), now) : x.n_cleared > 0}}

\* C7: when a credential is offered while waiters that gave up are parked in
\* front of a waiter C that did not, the same critical section discards them
\* and sends the lease to C; the waiters that gave up receive nothing, and
\* |pool| + |leases| is still the configured total.
AbandonedWaiterSkipped ==
    [] \A s \in ServiceNames :
        LiveWaiters(s) # {} =>
            \A m \in Offers(s) :
                /\ \A i \in 1..(FirstLive(s) - 1) :
                      /\ Received(m, Waiters(s)[i]) = <<>>
                      /\ \A k \in 1..Len(m.waiters) : m.waiters[k] # Waiters(s)[i]
                /\ Received(m, Waiters(s)[FirstLive(s)]) # <<>>
                /\ Len(m.service.available_creds) + Cardinality(DOMAIN m.service.leases)
                      = SumConcurrent(config[s].credentials)

\* C7 happens: B is parked and has given up, C is parked behind B and has
\* not, and a lease of the service can be released (the ids for it are left).
AbandonedWaiterSkippedWitness ==
    \E s \in ServiceNames :
        /\ LiveWaiters(s) # {}
        /\ FirstLive(s) > 1
        /\ \E m \in Offers(s) :
              /\ m.nextId <= MaxLeaseIds + 1
              /\ Received(m, Waiters(s)[FirstLive(s)]) # <<>>
              /\ Received(m, Waiters(s)[1]) = <<>>

\* C8: between two operations, every lease in a lease table is one that a
\* try_send has put into a client's channel; a lease made for a waiter that
\* had given up is not left in the table.
LeasesWereHanded ==
    \A s \in ServiceNames : DOMAIN Leases(s) \subseteq handed

\* C8 happens: a lease was made for a waiter that had given up (its id was
\* generated and never handed over), and leases are in the table.
LeasesWereHandedWitness ==
    /\ \E id \in 1..(nextId - 1) : id \notin handed
    /\ \E s \in ServiceNames : DOMAIN Leases(s) # {}

\* the pool, the lease table and the waiter queue are the same in m1 and m2
SameBroker(m1, m2) == m1.service = m2.service /\ m1.waiters = m2.waiters

ExpiryBound ==
    \A s \in ServiceNames : \A id \in DOMAIN Leases(s) :
        now - Leases(s)[id].expiration.expires_on <= SweepInterval

\* C10 happens: a lease that expired right after one run of the Cleaner is
\* still in the table when the next run is due.
ExpiryBoundWitness ==
    \E s \in ServiceNames : \E id \in DOMAIN Leases(s) :
        /\ now - Leases(s)[id].expiration.expires_on = SweepInterval
        /\ sweepPos > 0

\* ------------------------------------------------------------ expiry wake-up

\* The Cleaner's interval keeps firing and the clean it spawns runs to its
\* end: time passes and every sweep that has started locks each broker.
SpecLive == Spec /\ WF_vars(Tick) /\ WF_vars(CleanerStep)

\* c is the first waiter in line of a service, it has not given up, and the
\* clock will still reach the first sweep after every lease of now has expired
FirstInLine(c) ==
    \E s \in ServiceNames :
        /\ LiveWaiters(s) # {}
        /\ Waiters(s)[FirstLive(s)].sender = c
        /\ now + config[s].lease_timeout_secs + SweepInterval <= MaxTime

\* the waiter with the channel c was sent a lease, or has given up
ServedOrGone(c) == c \notin DOMAIN chan \/ chan[c].closed

\* the run ends here: a sweep cannot go on, because the lease it has to make
\* would take a lease id beyond MaxLeaseIds
OutOfLeaseIds == sweepPos > 0 /\ ~ENABLED CleanerStep

Started == ~running /\ running'
StartedSameConfig == Started /\ config' = config
Snapshot == IF leasesFile.kind = "yaml" THEN leasesFile.leases ELSE <<>>

\* the persisted leases of the snapshot, as pairs <<service, entry>>
Persisted ==
    UNION { {<<s, Snapshot[s][i]>> : i \in 1..Len(Snapshot[s])} : s \in DOMAIN Snapshot }

\* the fingerprints of the credentials cfg configures for s, and the number
\* of concurrent uses configured for the fingerprint h
Fingerprints(cfg, s) ==
    {CredHash(cfg[s].credentials[i]) : i \in 1..Len(cfg[s].credentials)}

RECURSIVE SumConcurrentOfHash(_, _)
SumConcurrentOfHash(credentials, h) ==
    IF credentials = <<>> THEN 0
    ELSE (IF CredHash(Head(credentials)) = h THEN Head(credentials).num_concurrent ELSE 0)
         + SumConcurrentOfHash(Tail(credentials), h)

\* the credentials with the fingerprint h in the pool and in the lease table
\* of the broker b
HeldOfHash(b, h) ==
    Cardinality({i \in 1..Len(b.service.available_creds) :
                    CredHash(b.service.available_creds[i]) = h})
    + Cardinality({id \in DOMAIN b.service.leases :
                    CredHash(CredFromLease(b.service.leases[id])) = h})

\* C12: pool conservation across restart: after a save and a load with the
\* same configuration, every service has |pool| + |leases| equal to the sum
\* of num_concurrent, pair by pair; also with num_concurrent > 1 and with
\* snapshots whose leases have all expired.
RestartConservesPool ==
    [][StartedSameConfig =>
          \A s \in DOMAIN services' :
              /\ Len(services'[s].service.available_creds)
                    + Cardinality(DOMAIN services'[s].service.leases)
                    = SumConcurrent(config'[s].credentials)
              /\ \A h \in Fingerprints(config', s) :
                    HeldOfHash(services'[s], h)
                        = SumConcurrentOfHash(config'[s].credentials, h)]_vars

\* C13: lease preservation across restart: after a save and a load with the
\* same configuration, every saved lease whose expires_on is not before the
\* time of the load and whose fingerprint is configured is in the lease
\* table again, with its lease_id, client_name, created_on and expires_on;
\* also each of several leases that share a fingerprint.
RestartPreservesLeases ==
    [][StartedSameConfig =>
          \A e \in Persisted :
              LET s == e[1]
                  pl == e[2]
              IN  (/\ ~(pl.expiration.expires_on < now')
                   /\ s \in DOMAIN config'
                   /\ pl.cred_hash \in Fingerprints(config', s))
                  => /\ pl.lease_id \in DOMAIN services'[s].service.leases
                     /\ LET lease == services'[s].service.leases[pl.lease_id] IN
                        /\ lease.id = pl.lease_id
                        /\ lease.client_name = pl.client_name
                        /\ lease.expiration = pl.expiration
                        /\ CredHash(CredFromLease(lease)) = pl.cred_hash]_vars

\* the entry pl of the snapshot, saved for the service s, is skipped by the
\* load that this step makes
Skipped(s, pl) ==
    s \notin DOMAIN services' \/ pl.lease_id \notin DOMAIN services'[s].service.leases

\* C14a: the load inserts no lease for an entry that has expired, whose
\* service is not configured, or whose cred_hash is the fingerprint of no
\* credential in the pool of that service; and every lease it inserts is an
\* entry of the snapshot.
RestoreSkips ==
    /\ \A e \in Persisted :
          (\/ e[2].expiration.expires_on < now'
           \/ e[1] \notin DOMAIN config'
           \/ e[2].cred_hash \notin Fingerprints(config', e[1]))
          => Skipped(e[1], e[2])
    /\ \A s \in DOMAIN services' : \A id \in DOMAIN services'[s].service.leases :
          \E e \in Persisted : e[1] = s /\ e[2].lease_id = id

\* C14b: after the load every credential in a pool or in a lease is a pair
\* the configuration produces.
RestoreFromConfigOnly ==
    \A s \in DOMAIN services' :
        LET configured == {[user |-> config'[s].credentials[i].user,
                            password |-> config'[s].credentials[i].password]
                           : i \in 1..Len(config'[s].credentials)}
            b == services'[s]
        IN  /\ \A i \in 1..Len(b.service.available_creds) :
                  b.service.available_creds[i] \in configured
            /\ \A id \in DOMAIN b.service.leases :
                  CredFromLease(b.service.leases[id]) \in configured

\* C14c: the credential of every skipped entry is back in the pool: of the
\* configured credential an entry names, the copies not held by a restored
\* lease are all in the pool.
RestoreGivesBack ==
    \A e \in Persisted :
        (/\ e[1] \in DOMAIN config'
         /\ e[2].cred_hash \in Fingerprints(config', e[1])
         /\ Skipped(e[1], e[2]))
        => HeldOfHash(services'[e[1]], e[2].cred_hash)
              = SumConcurrentOfHash(config'[e[1]].credentials, e[2].cred_hash)

\* C14: restore never takes credentials from the snapshot.
RestoreNeverTakesFromSnapshot ==
    [][Started => RestoreSkips /\ RestoreFromConfigOnly /\ RestoreGivesBack]_vars

\* C15: a load that fails (no file, or a file that does not parse) touches no
\* broker: the process starts, and every service has its full configured
\* pool, an empty lease table and no waiters.
FailedLoadLeavesState ==
    [][(Started /\ leasesFile.kind # "yaml") =>
          /\ running'
          /\ DOMAIN services' = DOMAIN config'
          /\ \A s \in DOMAIN services' :
                /\ services'[s].service.available_creds = FlatMap(config'[s].credentials)
                /\ Len(services'[s].service.available_creds)
                      = SumConcurrent(config'[s].credentials)
                /\ DOMAIN services'[s].service.leases = {}
                /\ services'[s].waiters = <<>>]_vars

\* C15 happens: leases were handed out, the save at the end left a file that
\* does not parse, and the process has started again.
FailedLoadLeavesStateWitness ==
    /\ running
    /\ restarts > 0
    /\ leasesFile.kind # "yaml"
    /\ handed # {}
    /\ \A s \in ServiceNames : DOMAIN Leases(s) = {}

\* ---------------------------------------------------------- claims on locks

\* t awaits a lock that a guard of u keeps from it
WaitsFor(t, u) ==
    /\ t # u
    /\ tasks[t].pc = "await"
    /\ \E g \in tasks[u].guards :
          /\ g.service = tasks[t].path[tasks[t].pos]
          /\ ~(g.mode = "read" /\ LockMode(t) = "read")

\* C16: deadlock freedom: no task holds the locks of two brokers at a time; a
\* task has dropped the lock of one broker when it awaits the next; so a task
\* that another waits for is in its critical section and waits for nothing,
\* and no cyclic wait on broker locks is reached.
DeadlockFreedom ==
    /\ \A t \in TaskNames : Cardinality(tasks[t].guards) <= 1
    /\ \A t \in TaskNames : tasks[t].pc = "await" => tasks[t].guards = {}
    /\ \A t, u \in TaskNames : WaitsFor(t, u) => tasks[u].pc = "body"
    /\ (\E t \in TaskNames : tasks[t].pc # "idle") => ENABLED LockNext

\* C16 happens: a task that has gone through its first broker awaits the
\* lock of its second, which another task holds, while a third task holds
\* the lock of the first broker.
DeadlockFreedomWitness ==
    \E t, u, v \in TaskNames :
        /\ tasks[t].pos = 2
        /\ WaitsFor(t, u)
        /\ v \notin {t, u}
        /\ \E g \in tasks[v].guards : g.service = tasks[t].path[1]

\* ------------------------------------------- claims on the pool and the queue

\* C17: in serve_waiters, when the waiter at the head has given up, the lease
\* made for it is removed and its credential goes back to the front of the
\* pool: the next waiter is sent that same credential, and when no waiter is
\* left to take it the pool is as it was.
RollbackToFront ==
    \A s \in ServiceNames :
        (Waiters(s) # <<>> /\ chan[Head(Waiters(s)).sender].closed) =>
            \A r \in ClearExpiredLeases(Locked(s), now) :
                LET pool == r.m.service.available_creds IN
                pool # <<>> =>
                    \A m \in ServeWaiters(r.m, now) :
                        IF LiveWaiters(s) # {}
                        THEN LET got == Received(m, Waiters(s)[FirstLive(s)]) IN
                             got # <<>> /\ PairOf(got[1]) = Head(pool)
                        ELSE m.service.available_creds = pool

\* the leases Service::get_lease makes for the broker of s in this step
Built(s) == IF services'[s] = services[s] THEN 0 ELSE nextId' - nextId

\* C18: obtain first reaps every lease with expires_on < now; then it
\* answers with a lease at once if and only if the pool is not empty, and
\* otherwise puts exactly one waiter at the back of the queue. So a client is
\* parked only when the pool is empty and no lease has expired, and the
\* credential of an expired lease is issued again by the next obtain, with
\* or without a sweep.
ObtainReapsThenLeasesOrParks ==
    [][\A s \in ServiceNames, ua \in UserAgents :
          GetLeaseHandler(s, ua) =>
              LET expired == {id \in DOMAIN Leases(s) :
                                 Leases(s)[id].expiration.expires_on < now}
                  free == Len(Pool(s)) + Cardinality(expired)
                  leases2 == services'[s].service.leases
                  pool2 == services'[s].service.available_creds
              IN  /\ expired \cap DOMAIN leases2 = {}
                  /\ IF free > 0
                     THEN /\ DOMAIN leases2 = (DOMAIN Leases(s) \ expired) \cup {nextId}
                          /\ leases2[nextId].client_name = ua
                          /\ leases2[nextId].expiration.created_on = now
                          /\ nextId \in handed'
                          /\ Len(pool2) = free - 1
                          /\ services'[s].waiters = Waiters(s)
                     ELSE /\ leases2 = Leases(s)
                          /\ pool2 = <<>>
                          /\ nextId' = nextId
                          /\ services'[s].waiters =
                                Append(Waiters(s), [sender |-> nextChan, client_name |-> ua])]_vars

\* C18 happens: on a service with one credential, before the first sweep, a
\* lease has been made at a second at which the lease before it had expired.
ObtainReapsThenLeasesOrParksWitness ==
    \E s \in ServiceNames : \E id \in DOMAIN Leases(s) :
        /\ SumConcurrent(config[s].credentials) = 1
        /\ now < SweepInterval
        /\ id > 1
        /\ Leases(s)[id].expiration.created_on = now
        /\ now > config[s].lease_timeout_secs
        /\ Waiters(s) = <<>>

\* C19: the pool is first in, first out. In every step the leases are built
\* from the credentials at the front of the pool, in order, and what is given
\* back (by release, by expiry) goes behind the credentials the pool has: the
\* credentials of the pool that were not taken are still at its front, in
\* the same order.
PoolIsFifo ==
    [][\A s \in ServiceNames :
          LET pool == Pool(s)
              pool2 == services'[s].service.available_creds
              leases2 == services'[s].service.leases
          IN  /\ \A i \in 1..(Len(pool) - Built(s)) :
                    i <= Len(pool2) /\ pool2[i] = pool[Built(s) + i]
              /\ \A k \in 1..Built(s) :
                    (k <= Len(pool) /\ nextId + k - 1 \in DOMAIN leases2)
                    => PairOf(leases2[nextId + k - 1]) = pool[k]]_vars

\* C19 happens: the first credential of a service was leased and given back
\* while the second was in the pool, and it stands behind the second.
PoolIsFifoWitness ==
    \E s \in ServiceNames :
        /\ Len(config[s].credentials) = 2
        /\ Len(Pool(s)) = 2
        /\ Pool(s)[1] = PairOf(config[s].credentials[2])
        /\ Pool(s)[2] = PairOf(config[s].credentials[1])
        /\ nextId = 2

\* the critical sections on s that can send a lease to a waiter: the release
\* of a lease of the table, the release of an id no table has, and a sweep
Deliveries(s) ==
    UNION { {r.m : r \in BrokerRelease(Locked(s), id, now)} : id \in DOMAIN Leases(s) \cup {0} }
    \cup {r.m : r \in BrokerClean(Locked(s), now)}

\* C20: a lease sent to a parked waiter carries the waiter's client_name and
\* a lease id that was never used, and its expiration is taken at the
\* delivery: created_on is the time of the delivery and expires_on is
\* created_on + expires_in.
WaiterLeaseIsFresh ==
    [] \A s \in ServiceNames : \A m \in Deliveries(s) : \A i \in 1..Len(Waiters(s)) :
        LET got == Received(m, Waiters(s)[i]) IN
        got # <<>> =>
            /\ got[1].client_name = Waiters(s)[i].client_name
            /\ got[1].id >= nextId
            /\ got[1].id \notin handed
            /\ \A z \in ServiceNames : got[1].id \notin DOMAIN Leases(z)
            /\ got[1].expiration.created_on = now
            /\ got[1].expiration.expires_on = now + config[s].lease_timeout_secs
            /\ m.service.leases[got[1].id] = got[1]

\* C20 happens: client B has been parked since before now (a lease of the
\* table, made for client A, has expired, which an obtain made now would
\* have reaped), and a sweep sends B a lease (the ids for it are left).
WaiterLeaseIsFreshWitness ==
    \E s \in ServiceNames : \E i \in LiveWaiters(s) : \E id \in DOMAIN Leases(s) :
        /\ Waiters(s)[i].client_name = "B"
        /\ Leases(s)[id].client_name = "A"
        /\ Leases(s)[id].expiration.expires_on < now
        /\ \E r \in BrokerClean(Locked(s), now) :
              /\ r.m.nextId <= MaxLeaseIds + 1
              /\ Received(r.m, Waiters(s)[i]) # <<>>

\* the queue q without its first k waiters
Behind(q, k) == SubSeq(q, k + 1, Len(q))

\* C21: the parked waiters of a service are served in the order they came.
\* A critical section that sends leases removes waiters from the head of the
\* queue only; a waiter that is sent a lease has been removed, and so has
\* every waiter that was parked before it, each of which was sent a lease
\* made earlier or had given up. In every step the queue loses waiters at its
\* head only and gains at most the caller of obtain at its back.
DeliveryInArrivalOrder ==
    /\ [] \A s \in ServiceNames : \A m \in Deliveries(s) :
          \E k \in 0..Len(Waiters(s)) :
              /\ m.waiters = Behind(Waiters(s), k)
              /\ \A j \in 1..Len(Waiters(s)) :
                    Received(m, Waiters(s)[j]) # <<>> =>
                        /\ j <= k
                        /\ \A i \in 1..(j - 1) :
                              IF Received(m, Waiters(s)[i]) # <<>>
                              THEN Received(m, Waiters(s)[i])[1].id
                                      < Received(m, Waiters(s)[j])[1].id
                              ELSE chan[Waiters(s)[i].sender].closed
    /\ [][\A s \in ServiceNames :
             \E k \in 0..Len(Waiters(s)) :
                 \/ services'[s].waiters = Behind(Waiters(s), k)
                 \/ /\ k = 0
                    /\ \E ua \in UserAgents :
                          services'[s].waiters =
                              Append(Waiters(s), [sender |-> nextChan, client_name |-> ua])]_vars

\* C21 happens: two waiters that have not given up are parked on a service,
\* and a release or a sweep (the ids for it are left) sends a lease to the
\* first and leaves the second at the head of the queue.
DeliveryInArrivalOrderWitness ==
    \E s \in ServiceNames :
        /\ Len(Waiters(s)) >= 2
        /\ {1, 2} \subseteq LiveWaiters(s)
        /\ \E m \in Deliveries(s) :
              /\ m.nextId <= MaxLeaseIds + 1
              /\ Received(m, Waiters(s)[1]) # <<>>
              /\ m.waiters = Tail(Waiters(s))

\* C22: when ServiceBroker::release or ServiceBroker::clean returns, the pool
\* of the service is empty or its waiter queue is empty: serve_waiters goes
\* on until one of the two is used up, and the waiters it has removed were
\* each sent a lease or had given up.
ReleaseAndCleanExhaust ==
    [] \A s \in ServiceNames : \A m \in Deliveries(s) :
        /\ m.service.available_creds = <<>> \/ m.waiters = <<>>
        /\ \A i \in 1..(Len(Waiters(s)) - Len(m.waiters)) :
              Received(m, Waiters(s)[i]) # <<>> \/ chan[Waiters(s)[i].sender].closed

\* C22 happens: the waiter at the head has given up and a waiter behind it
\* has not; a release or a sweep (the ids for it are left) discards the
\* first, serves the second and leaves the queue empty.
ReleaseAndCleanExhaustWitness ==
    \E s \in ServiceNames :
        /\ Len(Waiters(s)) >= 2
        /\ chan[Waiters(s)[1].sender].closed
        /\ 2 \in LiveWaiters(s)
        /\ \E m \in Deliveries(s) :
              /\ m.nextId <= MaxLeaseIds + 1
              /\ m.waiters = <<>>
              /\ Received(m, Waiters(s)[2]) # <<>>

\* --------------------------------------------------------------- late releases

\* the service s has one credential, for one use at a time
SingleCredential(s) == SumConcurrent(config[s].credentials) = 1

\* the lease id was handed to a client and is in no lease table
Gone(id) == id \in handed /\ \A z \in ServiceNames : id \notin DOMAIN Leases(z)

\* get_lease: POST /get for a service with a single credential
LateGetLease(s, ua) == SingleCredential(s) /\ GetLeaseHandler(s, ua)

\* clear_lease: POST /release with the id of a lease that is gone
LateClearLease(id) == Gone(id) /\ ClearLeaseHandler(id)

\* The clients of a service with a single credential that never release in
\* time: every lease leaves the table by expiry, every POST /release comes
\* late, and every lease is one on that credential.
LateNext ==
    \/ \E s \in ServiceNames, ua \in UserAgents : LateGetLease(s, ua)
    \/ \E id \in 1..(nextId - 1) : LateClearLease(id)
    \/ \E rq \in releasing : ClearLeaseNext(rq)
    \/ CleanerStep
    \/ \E c \in 1..MaxRequests : Abandon(c)
    \/ Tick

SpecLateRelease == Init /\ [][LateNext]_vars

Owner(id) == CHOOSE s \in ServiceNames : id \in DOMAIN Leases(s)

\* the handlers of POST /release that can take a turn of their loop: the one
\* between two turns, or a new one for a lease that is in a table
TurnsForHeld ==
    {rq \in releasing \cup {[lease |-> id, pos |-> 1] : id \in 1..(nextId - 1)} :
        /\ rq \in releasing \/ releasing = {}
        /\ \E s \in ServiceNames : rq.lease \in DOMAIN Leases(s)}

ServiceOverview(s) ==
    [credentials_available |-> Len(Pool(s)),
     credentials_in_use |-> Cardinality(DOMAIN Leases(s)),
     clients_waiting |-> Len(Waiters(s))]

\* the pool of s is empty and stays so when the expired leases are reaped
NothingToOffer(s) ==
    /\ Pool(s) = <<>>
    /\ \A id \in DOMAIN Leases(s) : ~(Leases(s)[id].expiration.expires_on < now)

\* C25: waiters that gave up are reclaimed lazily. Giving up leaves the queue
\* and clients_waiting as they are; obtain removes no waiter; a release or a
\* sweep removes waiters at the head of the queue only, as many as it has
\* made leases to offer, and none when the pool is empty and no lease has
\* expired.
AbandonedWaitersStay ==
    /\ [][\A c \in 1..MaxRequests : Abandon(c) => services' = services]_vars
    /\ [][\A s \in ServiceNames, ua \in UserAgents :
             GetLeaseHandler(s, ua) =>
                 SubSeq(services'[s].waiters, 1, Len(Waiters(s))) = Waiters(s)]_vars
    /\ [] \A s \in ServiceNames : \A m \in Deliveries(s) :
            LET n == Len(Waiters(s)) - Len(m.waiters) IN
            /\ m.waiters = Behind(Waiters(s), n)
            /\ n = m.nextId - nextId
    /\ [] \A s \in ServiceNames :
            NothingToOffer(s) =>
                \A r \in BrokerClean(Locked(s), now) \cup BrokerRelease(Locked(s), 0, now) :
                    r.m.waiters = Waiters(s)

\* C25 happens: the sweep is about to lock a service whose pool is empty and
\* whose lease has not expired, the waiter at the head of its queue has given
\* up, and clients_waiting counts more clients than are waiting.
AbandonedWaitersStayWitness ==
    /\ sweepPos > 0
    /\ LET s == iterOrder[sweepPos] IN
       /\ NothingToOffer(s)
       /\ Waiters(s) # <<>>
       /\ chan[Head(Waiters(s)).sender].closed
       /\ ServiceOverview(s).clients_waiting > Cardinality(LiveWaiters(s))
       /\ ServiceOverview(s).credentials_in_use > 0

\* ------------------------------------- the earlier iteration: its handlers

\* everything but polling, nextId, now and sweepPos
brokerCrate == <<config, iterOrder, services, chan, nextChan, handed, releasing,
                 leasesFile, running, restarts, tasks>>

\* one turn of the loop of get_lease under the Mutex: the lease is returned,
\* or the handler sleeps for 300 ms
PollingTry(s, was_delayed) ==
    \E r \in PollingGetLease(polling.services[s], nextId, now) :
        IF r.lease # None
        THEN /\ nextId <= MaxLeaseIds
             /\ nextId' = nextId + 1
             /\ polling' = [polling EXCEPT
                               !.services[s] = r.service,
                               !.delayed[s] = IF was_delayed THEN @ - 1 ELSE @,
                               !.requests = IF was_delayed THEN @ ELSE @ + 1]
        ELSE /\ nextId' = nextId
             /\ polling' = [polling EXCEPT
                               !.services[s] = r.service,
                               !.delayed[s] = IF was_delayed THEN @ ELSE @ + 1,
                               !.requests = IF was_delayed THEN @ ELSE @ + 1]

\* get_lease: POST /get for a configured service, first turn of the loop
PollingGetLeaseHandler(s) ==
    /\ polling.requests < MaxRequests
    /\ PollingTry(s, FALSE)
    /\ UNCHANGED <<now, sweepPos, brokerCrate>>

\* get_lease: a handler wakes from delay_for and tries again
PollingRetry(s) ==
    /\ polling.delayed[s] > 0
    /\ PollingTry(s, TRUE)
    /\ UNCHANGED <<now, sweepPos, brokerCrate>>

\* a polling client disconnects: the handler's future is dropped in its delay
PollingGiveUp(s) ==
    /\ polling.delayed[s] > 0
    /\ polling' = [polling EXCEPT !.delayed[s] = @ - 1]
    /\ UNCHANGED <<nextId, now, sweepPos, brokerCrate>>

\* clear_lease: POST /release; the lease is removed from the lease table of
\* every service, and what leases.remove returns is dropped
PollingClearLease(lease_id) ==
    /\ polling' = [polling EXCEPT
                      !.services = [s \in DOMAIN @ |->
                                       [@[s] EXCEPT !.leases = MapRemove(@, lease_id)]]]
    /\ UNCHANGED <<nextId, now, sweepPos, brokerCrate>>

\* Cleaner::clean: every service is swept under one lock of the Mutex
PollingClean ==
    /\ sweepPos > 0
    /\ sweepPos' = 0
    /\ \E f \in Choices([s \in DOMAIN polling.services |->
                            PollingClearExpiredLeases(polling.services[s], now)]) :
          polling' = [polling EXCEPT !.services = f]
    /\ UNCHANGED <<nextId, now, brokerCrate>>

PollingNext ==
    \/ \E s \in DOMAIN config : PollingGetLeaseHandler(s)
    \/ \E s \in DOMAIN config : PollingRetry(s)
    \/ \E s \in DOMAIN config : PollingGiveUp(s)
    \/ \E id \in 0..(nextId - 1) : PollingClearLease(id)
    \/ PollingClean
    \/ Tick

SpecPolling == Init /\ [][PollingNext]_vars

\* C26: in the earlier iteration, a POST /release of the id of a lease gives
\* the credential of the lease back to the pool: in_use goes down by one,
\* available goes up by one (scenario S1: back to available = 1, in_use = 0)
\* and the credential is at the back of the pool for a later get.
PollingReleaseGivesBack ==
    [][\A id \in 1..(nextId - 1) : \A s \in DOMAIN config :
          (id \in DOMAIN polling.services[s].leases /\ PollingClearLease(id))
          => LET before == PollingServiceOverview(polling.services[s])
                 after == PollingServiceOverview(polling'.services[s])
                 pool2 == polling'.services[s].available_creds
             IN  /\ after.leases_in_use = before.leases_in_use - 1
                 /\ after.leases_available = before.leases_available + 1
                 /\ pool2 # <<>>
                 /\ pool2[Len(pool2)] = [user |-> polling.services[s].leases[id].user,
                                         password |-> polling.services[s].leases[id].password]]_vars

====
